---- MODULE Spec2Model ----
(***************************************************************************)
(* Background reminder scheduler of HabitQuest                             *)
(* (src-tauri/src/background_notifications.rs).                            *)
(*                                                                         *)
(* Time is counted in units of half an hour (UnitsPerHour units make one   *)
(* hour), so that durations which are not whole hours exist and the        *)
(* truncation done by chrono's num_hours() is visible.  The wall clock     *)
(* `now` never goes backwards and is observed at the instants of Instants. *)
(* Evaluating a tick and dispatching a notification take no time on that   *)
(* scale: the clock advances only while the tick loop sleeps.              *)
(*                                                                         *)
(* One process runs one service and one tick loop; Relaunch ends the       *)
(* process and starts the next one, which loads the persisted documents.   *)
(* notifications_sent_today is a u32 that is incremented only while it is  *)
(* below max_reminders_per_day, so it never wraps.                         *)
(*                                                                         *)
(* Specifications:                                                         *)
(*   Spec          the tick loop and the commands, each command one step   *)
(*   SpecLoad      start-up on a disk holding documents of earlier runs,   *)
(*                 some of them cut short                                  *)
(*   SpecLocks     the tick loop and two command threads, one lock() at a  *)
(*                 time; SpecLocksFair adds a fair scheduler               *)
(*   SpecStart     start_background_notifications invoked again in the     *)
(*                 running process                                         *)
(*   SpecStreak    the streak-protection loop of src-tauri/src/lib.rs, on  *)
(*                 a clock counted in minutes                              *)
(***************************************************************************)
EXTENDS Integers, Sequences, FiniteSets, TLC

VARIABLES
    now,            \* Local::now(), in time units since local midnight of day 0
    pc,             \* position of the tick loop: "Idle" (sleeping), "Evaluating",
                    \* "Skipped" (at a continue), "Notifying", "Notified"; at a
                    \* lock(): "LockingFirst", "LockingSecond"
    sleepLeft,      \* time left of the current thread::sleep(3600 s)
    config,         \* BackgroundNotificationService.config
    activity,       \* BackgroundNotificationService.activity_data
    configFile,     \* notification_config.json
    activityFile,   \* activity_data.json
    tick,           \* the tick under way: the exit its locked block took, the counter it wrote
    sentOn,         \* history: Notifier invocations of this process, per local date
    notifierResult, \* what send_background_notification returned to the loop body
    calls,          \* number of commands invoked so far
    lastCall,       \* the latest command: its argument, the result of its save_*_to_file
                    \* and the result it returned to its caller
    maxStable,      \* history: max_reminders_per_day unchanged since the process started
    configLock,     \* the Mutex around config: "free" or the thread holding its guard
    activityLock,   \* the Mutex around activity_data: "free" or the thread holding its guard
    callers,        \* the threads running commands: position, command, argument
    orphans,        \* services built by a repeated start_background_notifications:
                    \* their records and the wake time of their tick loop
    streakNow,      \* lib.rs loop: Local::now() at its latest check, in minutes
    streakWake,     \* lib.rs loop: when its tokio::time::sleep(3600 s) is over
    streakSent      \* history: streak-protection reminders shown, per local date

lockVars == <<configLock, activityLock, callers>>
startVars == <<orphans>>
streakVars == <<streakNow, streakWake, streakSent>>

vars == <<now, pc, sleepLeft, config, activity, configFile, activityFile, tick,
          sentOn, notifierResult, calls, lastCall, maxStable,
          lockVars, startVars, streakVars>>

----------------------------------------------------------------------------
\* Bounds of the model

MaxCalls == 2

\* lib.rs loop: the most minutes a sleep lasts beyond its 3600 seconds
StreakJitter == 2

\* Time scale
UnitsPerHour == 2
HoursPerDay == 24
UnitsPerDay == HoursPerDay * UnitsPerHour

\* Program constants
SleepSecs == 3600
InactivityHours == 12
RetainHours == 24

HabitIds == {"h1", "h2"}

\* lib.rs loop: its sleep, its send window, and the end of its clock in
\* minutes since local midnight of day 0
StreakSleepSecs == 3600
StreakFirstHour == 8
StreakLastHour == 22
StreakHour == 18
StreakMinutes == 5
SecsPerMinute == 60
MinutesPerHour == 60
MinutesPerDay == MinutesPerHour * HoursPerDay
StreakEnd == 2 * MinutesPerDay - 1

\* The instants at which the clock is observed, in time units since local
\* midnight of day 0: 00:00, 08:00, 11:30, 12:00, 13:00, 22:00 and 23:00 of
\* day 0; 00:00, 00:30 and 08:00 of day 1
Instants == {0, 16, 23, 24, 26, 44, 46, 48, 49, 64}
LastInstant == CHOOSE t \in Instants : \A u \in Instants : u <= t

----------------------------------------------------------------------------
\* chrono

\* Timelike::hour of a local timestamp
Hour(t) == (t \div UnitsPerHour) % HoursPerDay

\* DateTime::date_naive of a local timestamp
DateNaive(t) == t \div UnitsPerDay

\* Duration::num_hours: whole hours, truncated toward zero
NumHours(d) == IF d >= 0 THEN d \div UnitsPerHour ELSE -((-d) \div UnitsPerHour)

\* Duration::from_secs(3600) on the time scale of the model
SleepUnits == (SleepSecs * UnitsPerHour) \div 3600

None == [some |-> FALSE]
Some(t) == [some |-> TRUE, v |-> t]

----------------------------------------------------------------------------
\* Records

DefaultConfig ==
    [enabled |-> TRUE,
     streak_reminders |-> TRUE,
     random_reminders |-> TRUE,
     reminder_start_hour |-> 8,
     reminder_end_hour |-> 22,
     max_reminders_per_day |-> 2,
     streak_warning_threshold |-> 3,
     sound_enabled |-> FALSE,
     intelligent_timing |-> TRUE,
     adaptive_frequency |-> TRUE,
     streak_protection_hours |-> <<12, 18, 20>>]

DefaultActivity(t) ==
    [last_activity |-> t,
     daily_sessions |-> <<>>,
     habit_completions |-> [h \in {} |-> 0],
     notifications_sent_today |-> 0,
     last_notification_date |-> None]

\* The configs a caller passes to update_notification_config
ConfigChoices ==
    {DefaultConfig,
     [DefaultConfig EXCEPT !.enabled = FALSE],
     [DefaultConfig EXCEPT !.reminder_start_hour = 0,
                           !.reminder_end_hour = 23,
                           !.sound_enabled = TRUE],
     [DefaultConfig EXCEPT !.max_reminders_per_day = 1,
                           !.streak_protection_hours = <<18>>]}

----------------------------------------------------------------------------
\* serde_json: the persisted documents

\* (variant: timestamps written to the whole hour)
SerializeTime_wholeHours(t) == <<DateNaive(t), Hour(t), 0>>

\* A timestamp is written as its calendar form (date, hour, rest of the hour)
SerializeTime(t) == <<DateNaive(t), Hour(t), t % UnitsPerHour>>
DeserializeTime(s) == s[1] * UnitsPerDay + s[2] * UnitsPerHour + s[3]

SerializeConfig(c) ==
    <<c.enabled, c.streak_reminders, c.random_reminders,
      c.reminder_start_hour, c.reminder_end_hour, c.max_reminders_per_day,
      c.streak_warning_threshold, c.sound_enabled, c.intelligent_timing,
      c.adaptive_frequency, c.streak_protection_hours>>

DeserializeConfig(d) ==
    [enabled |-> d[1],
     streak_reminders |-> d[2],
     random_reminders |-> d[3],
     reminder_start_hour |-> d[4],
     reminder_end_hour |-> d[5],
     max_reminders_per_day |-> d[6],
     streak_warning_threshold |-> d[7],
     sound_enabled |-> d[8],
     intelligent_timing |-> d[9],
     adaptive_frequency |-> d[10],
     streak_protection_hours |-> d[11]]

SerializeActivity(a) ==
    <<SerializeTime(a.last_activity),
      [i \in 1..Len(a.daily_sessions) |-> SerializeTime(a.daily_sessions[i])],
      {<<h, SerializeTime(a.habit_completions[h])>> : h \in DOMAIN a.habit_completions},
      a.notifications_sent_today,
      IF a.last_notification_date.some
      THEN <<SerializeTime(a.last_notification_date.v)>>
      ELSE <<>>>>

DeserializeActivity(d) ==
    [last_activity |-> DeserializeTime(d[1]),
     daily_sessions |-> [i \in 1..Len(d[2]) |-> DeserializeTime(d[2][i])],
     habit_completions |->
        [h \in {e[1] : e \in d[3]} |->
            DeserializeTime((CHOOSE e \in d[3] : e[1] = h)[2])],
     notifications_sent_today |-> d[4],
     last_notification_date |->
        IF Len(d[5]) = 0 THEN None ELSE Some(DeserializeTime(d[5][1]))]

Absent == [exists |-> FALSE]
Document(d) == [exists |-> TRUE, json |-> d]

\* save_config_to_file: the document after the call; `written` is whether
\* the config directory resolved and the write succeeded
SaveConfigToFile(file, c, written) ==
    IF written THEN Document(SerializeConfig(c)) ELSE file

\* save_activity_to_file
SaveActivityToFile(file, a, written) ==
    IF written THEN Document(SerializeActivity(a)) ELSE file

\* A document cut short by a write that did not complete
Truncated == Document(<<>>)

\* serde_json::from_str succeeds on the document: every field is there
ParsesConfig(d) == Len(d) = 11
ParsesActivity(d) == Len(d) = 5

\* load_from_files, config half: an absent file leaves the record alone
LoadConfig(file, c) ==
    IF file.exists THEN DeserializeConfig(file.json) ELSE c

\* load_from_files, activity half
LoadActivity(file, a) ==
    IF file.exists THEN DeserializeActivity(file.json) ELSE a

\* (variant: no exists() test, a missing file fails the read)
LoadFromFiles_missingIsError(cfile, afile, c, a, dir_resolved) ==
    IF ~dir_resolved
    THEN [config |-> c, activity |-> a, result |-> "ConfigDirectoryUnresolved"]
    ELSE IF ~cfile.exists
    THEN [config |-> c, activity |-> a, result |-> "IoError"]
    ELSE IF ~ParsesConfig(cfile.json)
    THEN [config |-> c, activity |-> a, result |-> "DeserializationError"]
    ELSE IF ~afile.exists
    THEN [config |-> LoadConfig(cfile, c), activity |-> a, result |-> "IoError"]
    ELSE IF ~ParsesActivity(afile.json)
    THEN [config |-> LoadConfig(cfile, c), activity |-> a,
          result |-> "DeserializationError"]
    ELSE [config |-> LoadConfig(cfile, c), activity |-> LoadActivity(afile, a),
          result |-> "Ok"]

\* load_from_files on a service holding the records c and a: the records
\* after the call and its result.  Each ? returns at once: the config is
\* read, parsed and stored before the activity document is looked at.
LoadFromFiles(cfile, afile, c, a, dir_resolved) ==
    IF ~dir_resolved
    THEN [config |-> c, activity |-> a, result |-> "ConfigDirectoryUnresolved"]
    ELSE IF cfile.exists /\ ~ParsesConfig(cfile.json)
    THEN [config |-> c, activity |-> a, result |-> "DeserializationError"]
    ELSE IF afile.exists /\ ~ParsesActivity(afile.json)
    THEN [config |-> LoadConfig(cfile, c), activity |-> a,
          result |-> "DeserializationError"]
    ELSE [config |-> LoadConfig(cfile, c), activity |-> LoadActivity(afile, a),
          result |-> "Ok"]

----------------------------------------------------------------------------
\* The decision of one tick (start_background_service, the locked block)

\* (variant: the end hour is excluded from the window)
InActiveHours_endExclusive(cfg, h) ==
    ~(h < cfg.reminder_start_hour \/ h >= cfg.reminder_end_hour)

\* the active-hours test: the tick goes on when this holds
InActiveHours(cfg, h) ==
    ~(h < cfg.reminder_start_hour \/ h > cfg.reminder_end_hour)

\* (variant: the timestamps are compared, not their dates)
IsNewDay_timestamp(act, t) ==
    IF act.last_notification_date.some
    THEN act.last_notification_date.v # t
    ELSE TRUE

IsNewDay(act, t) ==
    IF act.last_notification_date.some
    THEN DateNaive(act.last_notification_date.v) # DateNaive(t)
    ELSE TRUE

\* (variant: the counter is reset but the date of the reset is not kept)
Rollover_dateNotKept(act, t) ==
    IF IsNewDay(act, t)
    THEN [act EXCEPT !.notifications_sent_today = 0]
    ELSE act

\* the day-rollover bookkeeping
Rollover(act, t) ==
    IF IsNewDay(act, t)
    THEN [act EXCEPT !.notifications_sent_today = 0,
                     !.last_notification_date = Some(t)]
    ELSE act

\* (variant: the quota test lets the counter reach the maximum plus one)
QuotaReached_above(cfg, act) ==
    act.notifications_sent_today > cfg.max_reminders_per_day

QuotaReached(cfg, act) ==
    act.notifications_sent_today >= cfg.max_reminders_per_day

HoursSinceActivity(act, t) == NumHours(t - act.last_activity)

\* (variant: strictly more than the threshold)
InactiveEnough_strict(act, t) == HoursSinceActivity(act, t) > InactivityHours

InactiveEnough(act, t) == HoursSinceActivity(act, t) >= InactivityHours

\* (variant: the day-rollover bookkeeping runs before the enabled test)
Evaluate_rolloverFirst(cfg, act, t) ==
    LET rolled == Rollover(act, t) IN
    IF ~cfg.enabled
    THEN [activity |-> rolled, notify |-> FALSE, exit |-> "disabled"]
    ELSE IF ~InActiveHours(cfg, Hour(t))
    THEN [activity |-> rolled, notify |-> FALSE, exit |-> "outside_hours"]
    ELSE IF QuotaReached(cfg, rolled)
    THEN [activity |-> rolled, notify |-> FALSE, exit |-> "quota"]
    ELSE IF InactiveEnough(rolled, t)
    THEN [activity |-> [rolled EXCEPT !.notifications_sent_today = @ + 1],
          notify |-> TRUE, exit |-> "notify"]
    ELSE [activity |-> rolled, notify |-> FALSE, exit |-> "active"]

\* The activity record the tick leaves, the value of should_send_notification
\* and the exit taken: the continue of the enabled test, of the active-hours
\* test or of the quota test, or the end of the block with true or false
Evaluate(cfg, act, t) ==
    IF ~cfg.enabled
    THEN [activity |-> act, notify |-> FALSE, exit |-> "disabled"]
    ELSE IF ~InActiveHours(cfg, Hour(t))
    THEN [activity |-> act, notify |-> FALSE, exit |-> "outside_hours"]
    ELSE LET rolled == Rollover(act, t) IN
         IF QuotaReached(cfg, rolled)
         THEN [activity |-> rolled, notify |-> FALSE, exit |-> "quota"]
         ELSE IF InactiveEnough(rolled, t)
         THEN [activity |->
                  [rolled EXCEPT !.notifications_sent_today = @ + 1],
               notify |-> TRUE, exit |-> "notify"]
         ELSE [activity |-> rolled, notify |-> FALSE, exit |-> "active"]

----------------------------------------------------------------------------
\* The facade operations on the records

\* record_activity: the retain test of one session
Retained(t, session) == NumHours(t - session) <= RetainHours

\* (variant: the new session is put in front of the list)
RecordActivityAt_newestFirst(act, t) ==
    LET pushed == <<t>> \o act.daily_sessions IN
    [act EXCEPT !.last_activity = t,
                !.daily_sessions = SelectSeq(pushed, LAMBDA s : Retained(t, s))]

\* record_activity at instant t
RecordActivityAt(act, t) ==
    LET pushed == Append(act.daily_sessions, t) IN
    [act EXCEPT !.last_activity = t,
                !.daily_sessions = SelectSeq(pushed, LAMBDA s : Retained(t, s))]

\* (variant: a completion also counts as activity)
RecordHabitCompletionAt_touch(act, habit_id, t) ==
    [act EXCEPT !.last_activity = t,
                !.habit_completions =
        [k \in (DOMAIN act.habit_completions) \cup {habit_id} |->
            IF k = habit_id THEN t ELSE act.habit_completions[k]]]

\* record_habit_completion at instant t
RecordHabitCompletionAt(act, habit_id, t) ==
    [act EXCEPT !.habit_completions =
        [k \in (DOMAIN act.habit_completions) \cup {habit_id} |->
            IF k = habit_id THEN t ELSE act.habit_completions[k]]]

----------------------------------------------------------------------------
\* The state machine

Dates == 0..DateNaive(LastInstant)

NoTick == [exit |-> "none", count |-> 0]

NoneSent == [d \in Dates |-> 0]

\* start_background_notifications returns Ok(()) whatever load_from_files
\* did; `loaded` is what load_from_files returned
StartedAfter(load_result) ==
    [cmd |-> "start_background_notifications", arg |-> "", saved |-> "none",
     loaded |-> load_result, result |-> "Ok"]

Started == StartedAfter("Ok")

\* what a save_*_to_file returns
SaveResult(written) == IF written THEN "Ok" ELSE "Err"

\* The threads on which the runtime runs commands
Callers == {"ui1", "ui2"}

IdleCaller == [pc |-> "idle", cmd |-> "", arg |-> ""]
NoCallers == [th \in Callers |-> IdleCaller]

\* No thread holds a guard and no command is under way
LocksFree ==
    /\ configLock = "free"
    /\ activityLock = "free"
    /\ callers = NoCallers

\* lib.rs loop: minutes of its sleep, the dates its clock runs over
StreakSleep == StreakSleepSecs \div SecsPerMinute
StreakDates == 0..(StreakEnd \div MinutesPerDay)
NoStreakSent == [d \in StreakDates |-> 0]

\* One service, and the lib.rs loop spawned by setup at midnight of day 0
OneService ==
    /\ orphans = <<>>
    /\ streakNow = 0
    /\ streakWake = StreakSleep
    /\ streakSent = NoStreakSent

\* A fresh installation: the process starts at local midnight of day 0,
\* start_background_notifications finds no file and starts the tick loop.
Init ==
    /\ now = 0
    /\ pc = "Idle"
    /\ sleepLeft = SleepUnits
    /\ config = DefaultConfig
    /\ activity = DefaultActivity(0)
    /\ configFile = Absent
    /\ activityFile = Absent
    /\ tick = NoTick
    /\ sentOn = NoneSent
    /\ notifierResult = "none"
    /\ calls = 0
    /\ lastCall = Started
    /\ maxStable = TRUE
    /\ LocksFree
    /\ OneService

\* The wall clock advances to a later instant while the tick loop sleeps
Advance(t) ==
    /\ pc = "Idle"
    /\ t > now
    /\ now' = t
    /\ sleepLeft' = IF sleepLeft > t - now THEN sleepLeft - (t - now) ELSE 0
    /\ UNCHANGED <<pc, config, activity, configFile, activityFile, tick,
                   sentOn, notifierResult, calls, lastCall, maxStable>>
    /\ UNCHANGED <<lockVars, startVars, streakVars>>

\* thread::sleep(Duration::from_secs(3600)) returns and the loop takes the
\* config guard and the activity guard, both free
Wake ==
    /\ pc = "Idle"
    /\ sleepLeft = 0
    /\ configLock = "free"
    /\ activityLock = "free"
    /\ configLock' = "tick"
    /\ activityLock' = "tick"
    /\ pc' = "Evaluating"
    /\ UNCHANGED <<now, sleepLeft, config, activity, configFile, activityFile, tick,
                   sentOn, notifierResult, calls, lastCall, maxStable>>
    /\ UNCHANGED <<callers, startVars, streakVars>>

\* (variant: the guards live to the end of the loop body)
LocksAfterBlock_keptToLoopEnd == [config |-> "tick", activity |-> "tick"]

\* The guards are dropped where the locked block ends, at a continue or at
\* its closing brace
LocksAfterBlock == [config |-> "free", activity |-> "free"]

\* The locked block of the loop body: with both guards held the decision
\* is made, then both guards are dropped
TickEvaluate ==
    /\ pc = "Evaluating"
    /\ configLock = "tick"
    /\ activityLock = "tick"
    /\ configLock' = LocksAfterBlock.config
    /\ activityLock' = LocksAfterBlock.activity
    /\ UNCHANGED <<callers, startVars, streakVars>>
    /\ LET r == Evaluate(config, activity, now) IN
        /\ activity' = r.activity
        /\ tick' = [exit |-> r.exit, count |-> r.activity.notifications_sent_today]
        /\ pc' = IF r.notify THEN "Notifying" ELSE "Skipped"
    /\ UNCHANGED <<now, sleepLeft, config, configFile, activityFile, sentOn,
                   notifierResult, calls, lastCall, maxStable>>

\* (variant: a failed dispatch gives its reminder back to the quota)
AfterDispatch_rollback(act, shown) ==
    IF shown THEN act ELSE [act EXCEPT !.notifications_sent_today = @ - 1]

\* if should_send_notification { let _ = ... }: the activity record after
\* the dispatch, whose result is dropped
AfterDispatch(act, shown) == act

\* Self::send_background_notification(&app_handle): the Notifier shows the
\* reminder (shown) or fails
Dispatch(shown) ==
    /\ pc = "Notifying"
    /\ notifierResult' = IF shown THEN "Ok" ELSE "Err"
    /\ sentOn' = [sentOn EXCEPT ![DateNaive(now)] = @ + 1]
    /\ activity' = AfterDispatch(activity, shown)
    /\ pc' = "Notified"
    /\ UNCHANGED <<now, sleepLeft, config, configFile, activityFile,
                   tick, calls, lastCall, maxStable>>
    /\ UNCHANGED <<lockVars, startVars, streakVars>>

\* (variant: the error of a failed dispatch ends the loop's thread)
EndTick_stopOnError ==
    /\ pc \in {"Skipped", "Notified"}
    /\ notifierResult' = "none"
    /\ tick' = NoTick
    /\ pc' = IF notifierResult = "Err" THEN "Stopped" ELSE "Idle"
    /\ sleepLeft' = SleepUnits
    /\ UNCHANGED <<now, config, activity, configFile, activityFile, sentOn,
                   calls, lastCall, maxStable>>
    /\ UNCHANGED <<lockVars, startVars, streakVars>>

\* The loop body is over, by a continue or by its end (the result of the
\* dispatch is dropped by let _ =): the loop sleeps again
EndTick ==
    /\ pc \in {"Skipped", "Notified"}
    /\ notifierResult' = "none"
    /\ tick' = NoTick
    /\ pc' = "Idle"
    /\ sleepLeft' = SleepUnits
    /\ UNCHANGED <<now, config, activity, configFile, activityFile, sentOn,
                   calls, lastCall, maxStable>>
    /\ UNCHANGED <<lockVars, startVars, streakVars>>

\* update_notification_config: what the command returns once the service is
\* in the app state; the result of save_config_to_file is dropped by let _ =
UpdateResult(written) == "Ok"

\* update_notification_config -> update_config
UpdateConfig(new_config, written) ==
    /\ calls < MaxCalls
    /\ configLock = "free"
    /\ config' = new_config
    /\ configFile' = SaveConfigToFile(configFile, new_config, written)
    /\ calls' = calls + 1
    /\ lastCall' = [cmd |-> "update_notification_config", arg |-> new_config,
                    saved |-> SaveResult(written), loaded |-> "none",
                    result |-> UpdateResult(written)]
    /\ maxStable' = (maxStable /\ new_config.max_reminders_per_day
                                     = config.max_reminders_per_day)
    /\ UNCHANGED <<now, pc, sleepLeft, activity, activityFile, tick, sentOn,
                   notifierResult>>
    /\ UNCHANGED <<lockVars, startVars, streakVars>>

\* record_app_activity -> record_activity
RecordActivity(written) ==
    /\ calls < MaxCalls
    /\ activityLock = "free"
    /\ activity' = RecordActivityAt(activity, now)
    /\ activityFile' = SaveActivityToFile(activityFile, activity', written)
    /\ calls' = calls + 1
    /\ lastCall' = [cmd |-> "record_app_activity", arg |-> "",
                    saved |-> SaveResult(written), loaded |-> "none",
                    result |-> "Ok"]
    /\ UNCHANGED <<now, pc, sleepLeft, config, configFile, tick, sentOn,
                   notifierResult, maxStable>>
    /\ UNCHANGED <<lockVars, startVars, streakVars>>

\* record_habit_completion_backend -> record_habit_completion
RecordHabitCompletion(habit_id, written) ==
    /\ calls < MaxCalls
    /\ activityLock = "free"
    /\ activity' = RecordHabitCompletionAt(activity, habit_id, now)
    /\ activityFile' = SaveActivityToFile(activityFile, activity', written)
    /\ calls' = calls + 1
    /\ lastCall' = [cmd |-> "record_habit_completion_backend", arg |-> habit_id,
                    saved |-> SaveResult(written), loaded |-> "none",
                    result |-> "Ok"]
    /\ UNCHANGED <<now, pc, sleepLeft, config, configFile, tick, sentOn,
                   notifierResult, maxStable>>
    /\ UNCHANGED <<lockVars, startVars, streakVars>>

\* The process exits and is launched again: start_background_notifications
\* builds a service with the defaults, loads the two documents and starts
\* the tick loop.
Relaunch(dir_resolved) ==
    /\ calls < MaxCalls
    /\ calls' = calls + 1
    /\ LET r == LoadFromFiles(configFile, activityFile, DefaultConfig,
                              DefaultActivity(now), dir_resolved) IN
        /\ config' = r.config
        /\ activity' = r.activity
        /\ lastCall' = StartedAfter(r.result)
    /\ pc' = "Idle"
    /\ sleepLeft' = SleepUnits
    /\ tick' = NoTick
    /\ sentOn' = NoneSent
    /\ notifierResult' = "none"
    /\ maxStable' = TRUE
    /\ configLock' = "free"
    /\ activityLock' = "free"
    /\ callers' = NoCallers
    /\ orphans' = <<>>
    /\ UNCHANGED <<now, configFile, activityFile, streakVars>>

Next ==
    \/ \E t \in Instants : Advance(t)
    \/ Wake
    \/ TickEvaluate
    \/ \E shown \in BOOLEAN : Dispatch(shown)
    \/ EndTick
    \/ \E c \in ConfigChoices, written \in BOOLEAN : UpdateConfig(c, written)
    \/ \E written \in BOOLEAN : RecordActivity(written)
    \/ \E h \in HabitIds, written \in BOOLEAN : RecordHabitCompletion(h, written)
    \/ \E dir_resolved \in BOOLEAN : Relaunch(dir_resolved)

Spec == Init /\ [][Next]_vars

----------------------------------------------------------------------------
\* Steps, as seen in the state

\* the locked block of one tick runs
TickStep == pc = "Evaluating" /\ pc' \in {"Skipped", "Notifying"}

\* the counter as the day-rollover step of a tick at the current instant
\* leaves it
CountAfterRollover ==
    IF activity.last_notification_date.some
       /\ DateNaive(activity.last_notification_date.v) = DateNaive(now)
    THEN activity.notifications_sent_today
    ELSE 0

\* the inactivity at the current instant, in whole hours
WholeHoursInactive ==
    LET idle == now - activity.last_activity IN
    CHOOSE n \in 0..idle :
        n * UnitsPerHour <= idle /\ idle < (n + 1) * UnitsPerHour

HourInWindow ==
    /\ config.reminder_start_hour <= Hour(now)
    /\ Hour(now) <= config.reminder_end_hour

----------------------------------------------------------------------------
\* C1: a tick decides to notify if and only if the config is enabled, the
\* local hour lies in [reminder_start_hour, reminder_end_hour], the counter
\* after the day-rollover step is below max_reminders_per_day and the
\* inactivity in whole hours is at least 12; when it notifies, the counter
\* is one more than after the rollover step.
C1_TickDecision ==
    [][TickStep =>
        /\ (pc' = "Notifying") <=>
              /\ config.enabled
              /\ HourInWindow
              /\ CountAfterRollover < config.max_reminders_per_day
              /\ WholeHoursInactive >= 12
        /\ pc' = "Notifying" =>
              activity'.notifications_sent_today = CountAfterRollover + 1]_vars

\* a tick that rolled the day over and notified at exactly 12 hours of inactivity
C1_Witness ==
    /\ pc = "Notifying"
    /\ activity.last_notification_date = Some(now)
    /\ activity.notifications_sent_today = 1
    /\ now - activity.last_activity = 12 * UnitsPerHour

\* C2: a tick evaluated while the config is disabled never notifies and
\* leaves every field of the activity record unchanged.
C2_DisabledTick ==
    [][TickStep /\ ~config.enabled =>
        /\ pc' = "Skipped"
        /\ activity' = activity
        /\ sentOn' = sentOn]_vars

\* a disabled tick has run on a new day, inside the active hours, after 12
\* hours of inactivity, and the rollover has not been done
C2_Witness ==
    /\ pc = "Skipped"
    /\ tick.exit = "disabled"
    /\ ~config.enabled
    /\ HourInWindow
    /\ WholeHoursInactive >= 12
    /\ ~activity.last_notification_date.some

\* C3: a tick whose local hour is below reminder_start_hour or above
\* reminder_end_hour does not notify and leaves the counter unchanged; a
\* tick at reminder_start_hour or at reminder_end_hour is inside the window:
\* it notifies when the other conditions hold.
C3_ActiveHours ==
    [][TickStep =>
        /\ (Hour(now) < config.reminder_start_hour
              \/ Hour(now) > config.reminder_end_hour) =>
              /\ pc' = "Skipped"
              /\ activity'.notifications_sent_today
                    = activity.notifications_sent_today
        /\ (/\ Hour(now) \in {config.reminder_start_hour, config.reminder_end_hour}
            /\ config.enabled
            /\ CountAfterRollover < config.max_reminders_per_day
            /\ WholeHoursInactive >= 12) =>
              pc' = "Notifying"]_vars

\* a tick at the end hour of the window has notified
C3_Witness ==
    /\ pc = "Notifying"
    /\ Hour(now) = config.reminder_end_hour
    /\ config.reminder_start_hour < config.reminder_end_hour

\* the local date of a tick at the current instant differs from the date of
\* last_notification_date, or last_notification_date is unset
DateDiffers ==
    \/ ~activity.last_notification_date.some
    \/ DateNaive(activity.last_notification_date.v) # DateNaive(now)

\* C4 as claimed: every tick whose local date differs from the date of
\* last_notification_date (or that finds it unset) resets the counter to 0,
\* so that the tick leaves 0, or 1 when it also notifies; a tick on the same
\* date never lowers the counter.
C4_Original ==
    [][TickStep =>
        IF DateDiffers
        THEN activity'.notifications_sent_today
                = (IF pc' = "Notifying" THEN 1 ELSE 0)
        ELSE activity'.notifications_sent_today
                >= activity.notifications_sent_today]_vars

\* C4, amended: the counter is reset to 0 (and last_notification_date set to
\* the tick's instant) by a tick that is evaluated with the config enabled
\* and the local hour inside the active hours and whose local date differs
\* from the date of last_notification_date (or that finds it unset); such a
\* tick leaves 0, or 1 when it also notifies.  Every other tick leaves
\* last_notification_date unchanged and never lowers the counter.
C4_RolloverReset ==
    [][TickStep =>
        IF config.enabled /\ HourInWindow /\ DateDiffers
        THEN /\ activity'.notifications_sent_today
                   = (IF pc' = "Notifying" THEN 1 ELSE 0)
             /\ activity'.last_notification_date = Some(now)
        ELSE /\ activity'.notifications_sent_today
                   >= activity.notifications_sent_today
             /\ activity'.last_notification_date
                   = activity.last_notification_date]_vars

\* two reminders went out on day 0 and the first tick of day 1 inside the
\* active hours has reset the counter and notified: the counter is 1
C4_Witness ==
    /\ pc = "Notifying"
    /\ DateNaive(now) = 1
    /\ sentOn[0] = 2
    /\ activity.last_notification_date = Some(now)
    /\ activity.notifications_sent_today = 1

\* C5: once the counter equals max_reminders_per_day, a tick on the date of
\* last_notification_date (no rollover observed) does not notify and leaves
\* the counter equal to the maximum, whatever the rest of the state.
C5_QuotaHolds ==
    [][(/\ TickStep
        /\ activity.notifications_sent_today = config.max_reminders_per_day
        /\ ~DateDiffers) =>
           /\ pc' = "Skipped"
           /\ activity'.notifications_sent_today = config.max_reminders_per_day]_vars

\* the quota is used up and a tick inside the active hours, after 12 hours
\* of inactivity, on the same date, has skipped at the quota test
C5_Witness ==
    /\ pc = "Skipped"
    /\ tick.exit = "quota"
    /\ activity.notifications_sent_today = config.max_reminders_per_day
    /\ sentOn[DateNaive(now)] = config.max_reminders_per_day
    /\ WholeHoursInactive >= 12
    /\ config.enabled

\* C6: within one process lifetime in which max_reminders_per_day keeps the
\* value M, the Notifier is invoked at most M times on any local date, for
\* any interleaving of ticks and commands.
C6_DailyCap ==
    maxStable => \A d \in Dates : sentOn[d] <= config.max_reminders_per_day

\* the cap is reached on some date in a lifetime with commands interleaved
C6_Witness ==
    /\ maxStable
    /\ calls >= 2
    /\ lastCall.cmd # "start_background_notifications"
    /\ \E d \in Dates : sentOn[d] = config.max_reminders_per_day /\ sentOn[d] > 0

\* C7 as claimed: when a tick changes notifications_sent_today or
\* last_notification_date, the persisted activity document holds the new
\* values of both before the tick completes, so that a relaunch loads them.
C7_TickPersists ==
    [][(/\ TickStep
        /\ \/ activity'.notifications_sent_today # activity.notifications_sent_today
           \/ activity'.last_notification_date # activity.last_notification_date) =>
           /\ activityFile'.exists
           /\ LET loaded == LoadActivity(activityFile', activity) IN
                /\ loaded.notifications_sent_today
                      = activity'.notifications_sent_today
                /\ loaded.last_notification_date
                      = activity'.last_notification_date]_vars

\* a record_app_activity command runs
RecordActivityStep ==
    calls' = calls + 1 /\ lastCall'.cmd = "record_app_activity"

\* C8 as claimed: a record_activity call that finds every session within 24
\* hours of it only appends its timestamp (N calls within a 24-hour span
\* leave N entries), and after any call no session is older than 24 hours
\* before the call.
C8_Pruning ==
    [][RecordActivityStep =>
        /\ (\A i \in 1..Len(activity.daily_sessions) :
               now - activity.daily_sessions[i] <= 24 * UnitsPerHour) =>
              activity'.daily_sessions = Append(activity.daily_sessions, now)
        /\ \A i \in 1..Len(activity'.daily_sessions) :
               now - activity'.daily_sessions[i] <= 24 * UnitsPerHour]_vars

\* C9: a failed dispatch is swallowed: the activity record keeps the
\* incremented counter written by the tick, the config and the two
\* documents are untouched, the Notifier has been invoked once, and from
\* there the loop goes back to sleep without a second dispatch.
C9_FailedDispatch ==
    [][/\ (pc = "Notifying" /\ pc' = "Notified" /\ notifierResult' = "Err") =>
            /\ activity' = activity
            /\ activity'.notifications_sent_today = tick.count
            /\ config' = config
            /\ configFile' = configFile
            /\ activityFile' = activityFile
            /\ sentOn' = [sentOn EXCEPT ![DateNaive(now)] = @ + 1]
       /\ (pc = "Notified" /\ notifierResult = "Err"
              /\ pc' # "Notified" /\ calls' = calls) =>
            /\ pc' = "Idle"
            /\ activity' = activity
            /\ sentOn' = sentOn]_vars

\* a dispatch has failed and its reminder has used up the daily quota
C9_Witness ==
    /\ pc = "Notified"
    /\ notifierResult = "Err"
    /\ activity.notifications_sent_today = tick.count
    /\ activity.notifications_sent_today = config.max_reminders_per_day

\* C10 as claimed: an update_notification_config whose save fails returns an
\* error to its caller, and the in-memory config is the new value.
C10_UpdateReportsFailure ==
    [][(/\ calls' = calls + 1
        /\ lastCall'.cmd = "update_notification_config"
        /\ lastCall'.saved = "Err") =>
           /\ lastCall'.result = "Err"
           /\ config' = lastCall'.arg]_vars

----------------------------------------------------------------------------
\* Start-up on a disk that earlier runs left documents on

\* The documents an earlier run can have left: none, one cut short by a
\* write that did not complete, or one its saves produced
ConfigFileChoices ==
    {Absent, Truncated} \cup
    {Document(SerializeConfig(c)) : c \in ConfigChoices \ {DefaultConfig}}

ActivityChoices ==
    {RecordActivityAt(DefaultActivity(0), 0),
     RecordHabitCompletionAt(
         [DefaultActivity(0) EXCEPT !.notifications_sent_today = 1], "h1", 0)}

ActivityFileChoices ==
    {Absent, Truncated} \cup
    {Document(SerializeActivity(a)) : a \in ActivityChoices}

\* A process started with an unresolved config directory (both records are
\* the defaults of new()), on a disk holding such documents
InitLoad ==
    /\ now = 0
    /\ pc = "Idle"
    /\ sleepLeft = SleepUnits
    /\ config = DefaultConfig
    /\ activity = DefaultActivity(0)
    /\ configFile \in ConfigFileChoices
    /\ activityFile \in ActivityFileChoices
    /\ tick = NoTick
    /\ sentOn = NoneSent
    /\ notifierResult = "none"
    /\ calls = 0
    /\ lastCall = StartedAfter("ConfigDirectoryUnresolved")
    /\ maxStable = TRUE
    /\ LocksFree
    /\ OneService

\* The process is started again and its tick loop runs
NextLoad ==
    \/ \E t \in Instants : Advance(t)
    \/ Wake
    \/ TickEvaluate
    \/ \E shown \in BOOLEAN : Dispatch(shown)
    \/ EndTick
    \/ \E dir_resolved \in BOOLEAN : Relaunch(dir_resolved)

SpecLoad == InitLoad /\ [][NextLoad]_vars

RelaunchStep ==
    /\ calls' = calls + 1
    /\ lastCall'.cmd = "start_background_notifications"

ConfigWellFormed == configFile.exists /\ ParsesConfig(configFile.json)
ActivityWellFormed == activityFile.exists /\ ParsesActivity(activityFile.json)
ConfigMalformed == configFile.exists /\ ~ParsesConfig(configFile.json)
ActivityMalformed == activityFile.exists /\ ~ParsesActivity(activityFile.json)

\* What a start with a resolved directory does about absent files and
\* about the config document
LoadAbsence ==
    /\ ~configFile.exists => config' = DefaultConfig
    /\ ~activityFile.exists => activity' = DefaultActivity(now)
    /\ ConfigWellFormed => config' = DeserializeConfig(configFile.json)
    /\ (~ConfigMalformed /\ ~ActivityMalformed) => lastCall'.loaded = "Ok"

\* C11 as stated: with the config directory resolved, an absent file leaves
\* its record at the default and is no error, a present well-formed document
\* replaces its record whatever the state of the other file, and the load
\* succeeds when no present file is malformed.
C11_Original ==
    [][(RelaunchStep /\ lastCall'.loaded # "ConfigDirectoryUnresolved") =>
          /\ LoadAbsence
          /\ ActivityWellFormed =>
                 activity' = DeserializeActivity(activityFile.json)]_vars

\* C11 amended: as above, except that a well-formed activity document
\* replaces its record only when the config file is absent or well-formed;
\* behind a malformed config file the activity record stays at its default.
C11_AbsentFiles ==
    [][(RelaunchStep /\ lastCall'.loaded # "ConfigDirectoryUnresolved") =>
          /\ LoadAbsence
          /\ (ActivityWellFormed /\ ~ConfigMalformed) =>
                 activity' = DeserializeActivity(activityFile.json)
          /\ ConfigMalformed => activity' = DefaultActivity(now)]_vars

\* A start found no config file and a well-formed activity document: the
\* config is the default, the activity is the document's, the load succeeded
C11_Witness ==
    /\ calls > 0
    /\ lastCall.cmd = "start_background_notifications"
    /\ lastCall.loaded = "Ok"
    /\ ~configFile.exists
    /\ ActivityWellFormed
    /\ config = DefaultConfig
    /\ activity = DeserializeActivity(activityFile.json)
    /\ activity # DefaultActivity(now)

\* C12: when the load fails on a malformed file, both records still hold
\* the values they had before the call (the defaults of new()), and the
\* tick loop is started on them.
C12_DefaultsRetained ==
    [][(RelaunchStep /\ lastCall'.loaded = "DeserializationError") =>
          /\ config' = DefaultConfig
          /\ activity' = DefaultActivity(now)
          /\ pc' = "Idle"]_vars

----------------------------------------------------------------------------
\* Round trip of the documents, and the frame of record_habit_completion

\* The records of a fresh service after load_from_files on the documents
\* as the step leaves them
FreshlyLoaded ==
    LoadFromFiles(configFile', activityFile', DefaultConfig,
                  DefaultActivity(now), TRUE)

UpdateConfigStep ==
    calls' = calls + 1 /\ lastCall'.cmd = "update_notification_config"

RecordHabitCompletionStep ==
    calls' = calls + 1 /\ lastCall'.cmd = "record_habit_completion_backend"

C20_HabitFrame ==
    [][RecordHabitCompletionStep =>
          LET h == lastCall'.arg
              before == activity.habit_completions
              after == activity'.habit_completions IN
          /\ DOMAIN after = DOMAIN before \cup {h}
          /\ after[h] = now
          /\ \A k \in DOMAIN before \ {h} : after[k] = before[k]
          /\ activity'.last_activity = activity.last_activity
          /\ activity'.daily_sessions = activity.daily_sessions
          /\ activity'.notifications_sent_today =
                 activity.notifications_sent_today
          /\ activity'.last_notification_date = activity.last_notification_date
          /\ config' = config
          /\ HoursSinceActivity(activity', now) = HoursSinceActivity(activity, now)
      ]_vars

\* A second habit is completed 12 hours or more after the last activity:
\* the first habit's entry and the inactivity duration are as before
C20_Witness ==
    /\ lastCall.cmd = "record_habit_completion_backend"
    /\ Cardinality(DOMAIN activity.habit_completions) = 2
    /\ activity.habit_completions[lastCall.arg] = now
    /\ \E k \in DOMAIN activity.habit_completions :
           activity.habit_completions[k] < now
    /\ HoursSinceActivity(activity, now) >= InactivityHours

----------------------------------------------------------------------------
\* The two Mutexes: the tick loop and the commands, one lock() at a time

\* The clock is observed at fewer instants here: 12:00, 13:00 and 23:00 of
\* day 0
LockInstants == {24, 26, 46}

\* The commands a thread can run on the service, with their argument
Commands ==
    {[cmd |-> "update_notification_config", arg |-> c] : c \in ConfigChoices}
    \cup {[cmd |-> "record_app_activity", arg |-> ""]}
    \cup {[cmd |-> "record_habit_completion_backend", arg |-> h] : h \in HabitIds}
    \cup {[cmd |-> "load_from_files", arg |-> ""]}

\* thread::sleep returns: the loop is at its first lock()
TickWake ==
    /\ pc = "Idle"
    /\ sleepLeft = 0
    /\ pc' = "LockingFirst"
    /\ UNCHANGED <<now, sleepLeft, config, activity, configFile, activityFile, tick,
                   sentOn, notifierResult, calls, lastCall, maxStable>>
    /\ UNCHANGED <<lockVars, startVars, streakVars>>

\* (variant: the activity guard is taken first)
TickLockOrder_activityFirst == <<"activity", "config">>

\* The order of the two lock() calls that open the locked block
TickLockOrder == <<"config", "activity">>

\* The lock the loop is asking for
TickWants ==
    IF pc = "LockingFirst" THEN TickLockOrder[1]
    ELSE IF pc = "LockingSecond" THEN TickLockOrder[2]
    ELSE "none"

\* A lock() of the loop returns: the loop holds the guard and goes on to
\* the next lock(), or with both guards to the evaluation
TickLock ==
    /\ pc \in {"LockingFirst", "LockingSecond"}
    /\ IF TickWants = "config"
       THEN configLock = "free" /\ configLock' = "tick" /\ UNCHANGED activityLock
       ELSE activityLock = "free" /\ activityLock' = "tick" /\ UNCHANGED configLock
    /\ pc' = IF pc = "LockingFirst" THEN "LockingSecond" ELSE "Evaluating"
    /\ UNCHANGED <<now, sleepLeft, config, activity, configFile, activityFile, tick,
                   sentOn, notifierResult, calls, lastCall, maxStable>>
    /\ UNCHANGED <<callers, startVars, streakVars>>

\* A command is invoked on thread th and reaches its first lock()
CallBegin(th, c) ==
    /\ calls < MaxCalls
    /\ callers[th].pc = "idle"
    /\ callers' = [callers EXCEPT ![th] =
                       [pc |-> "locking", cmd |-> c.cmd, arg |-> c.arg]]
    /\ calls' = calls + 1
    /\ UNCHANGED <<now, pc, sleepLeft, config, activity, configFile, activityFile,
                   tick, sentOn, notifierResult, lastCall, maxStable>>
    /\ UNCHANGED <<configLock, activityLock, startVars, streakVars>>

\* update_config: config.lock() returns and the record is replaced
UpdateLock(th) ==
    /\ callers[th].pc = "locking"
    /\ callers[th].cmd = "update_notification_config"
    /\ configLock = "free"
    /\ configLock' = th
    /\ config' = callers[th].arg
    /\ maxStable' = (maxStable /\ callers[th].arg.max_reminders_per_day
                                     = config.max_reminders_per_day)
    /\ callers' = [callers EXCEPT ![th].pc = "saving"]
    /\ UNCHANGED <<now, pc, sleepLeft, activity, configFile, activityFile,
                   tick, sentOn, notifierResult, calls, lastCall>>
    /\ UNCHANGED <<activityLock, startVars, streakVars>>

\* update_config: save_config_to_file under the guard, then the guard is
\* dropped and the command returns
UpdateSave(th, written) ==
    /\ callers[th].pc = "saving"
    /\ callers[th].cmd = "update_notification_config"
    /\ configFile' = SaveConfigToFile(configFile, config, written)
    /\ configLock' = "free"
    /\ lastCall' = [cmd |-> callers[th].cmd, arg |-> callers[th].arg,
                    saved |-> SaveResult(written), loaded |-> "none",
                    result |-> UpdateResult(written)]
    /\ callers' = [callers EXCEPT ![th] = IdleCaller]
    /\ UNCHANGED <<now, pc, sleepLeft, config, activity, activityFile,
                   tick, sentOn, notifierResult, calls, maxStable>>
    /\ UNCHANGED <<activityLock, startVars, streakVars>>

\* record_activity, record_habit_completion: activity_data.lock() returns
\* and the record is changed
RecordLock(th) ==
    /\ callers[th].pc = "locking"
    /\ callers[th].cmd \in {"record_app_activity",
                            "record_habit_completion_backend"}
    /\ activityLock = "free"
    /\ activityLock' = th
    /\ activity' = IF callers[th].cmd = "record_app_activity"
                   THEN RecordActivityAt(activity, now)
                   ELSE RecordHabitCompletionAt(activity, callers[th].arg, now)
    /\ callers' = [callers EXCEPT ![th].pc = "saving"]
    /\ UNCHANGED <<now, pc, sleepLeft, config, configFile, activityFile,
                   tick, sentOn, notifierResult, calls, lastCall, maxStable>>
    /\ UNCHANGED <<configLock, startVars, streakVars>>

\* save_activity_to_file under the guard, then the guard is dropped and
\* the command returns
RecordSave(th, written) ==
    /\ callers[th].pc = "saving"
    /\ callers[th].cmd \in {"record_app_activity",
                            "record_habit_completion_backend"}
    /\ activityFile' = SaveActivityToFile(activityFile, activity, written)
    /\ activityLock' = "free"
    /\ lastCall' = [cmd |-> callers[th].cmd, arg |-> callers[th].arg,
                    saved |-> SaveResult(written), loaded |-> "none",
                    result |-> "Ok"]
    /\ callers' = [callers EXCEPT ![th] = IdleCaller]
    /\ UNCHANGED <<now, pc, sleepLeft, config, activity, configFile,
                   tick, sentOn, notifierResult, calls, maxStable>>
    /\ UNCHANGED <<configLock, startVars, streakVars>>

\* What a load_from_files left in lastCall when it returned
Loaded(load_result) ==
    [cmd |-> "load_from_files", arg |-> "", saved |-> "none",
     loaded |-> load_result,
     result |-> IF load_result = "Ok" THEN "Ok" ELSE "Err"]

\* load_from_files on thread th, up to its config.lock(): the directory is
\* resolved and the config document, when there is one, is read and parsed
LoadReadConfig(th) ==
    /\ calls < MaxCalls
    /\ callers[th].pc = "idle"
    /\ calls' = calls + 1
    /\ IF ~configFile.exists
       THEN /\ callers' = [callers EXCEPT ![th] =
                   [pc |-> "reading_activity", cmd |-> "load_from_files",
                    arg |-> ""]]
            /\ UNCHANGED lastCall
       ELSE IF ParsesConfig(configFile.json)
       THEN /\ callers' = [callers EXCEPT ![th] =
                   [pc |-> "locking", cmd |-> "load_from_files",
                    arg |-> DeserializeConfig(configFile.json)]]
            /\ UNCHANGED lastCall
       ELSE /\ lastCall' = Loaded("DeserializationError")
            /\ UNCHANGED callers
    /\ UNCHANGED <<now, pc, sleepLeft, config, activity, configFile, activityFile,
                   tick, sentOn, notifierResult, maxStable>>
    /\ UNCHANGED <<configLock, activityLock, startVars, streakVars>>

\* load_from_files: config.lock() returns and the parsed config is stored
LoadStoreConfig(th) ==
    /\ callers[th].pc = "locking"
    /\ callers[th].cmd = "load_from_files"
    /\ configLock = "free"
    /\ configLock' = th
    /\ config' = callers[th].arg
    /\ maxStable' = (maxStable /\ callers[th].arg.max_reminders_per_day
                                     = config.max_reminders_per_day)
    /\ callers' = [callers EXCEPT ![th].pc = "stored_config"]
    /\ UNCHANGED <<now, pc, sleepLeft, activity, configFile, activityFile,
                   tick, sentOn, notifierResult, calls, lastCall>>
    /\ UNCHANGED <<activityLock, startVars, streakVars>>

\* load_from_files: the config guard is dropped where the if block ends,
\* then the activity document, when there is one, is read and parsed
LoadReadActivity(th) ==
    /\ callers[th].pc \in {"stored_config", "reading_activity"}
    /\ configLock' = IF configLock = th THEN "free" ELSE configLock
    /\ IF ~activityFile.exists
       THEN /\ callers' = [callers EXCEPT ![th] = IdleCaller]
            /\ lastCall' = Loaded("Ok")
       ELSE IF ParsesActivity(activityFile.json)
       THEN /\ callers' = [callers EXCEPT ![th] =
                   [pc |-> "locking_activity", cmd |-> "load_from_files",
                    arg |-> DeserializeActivity(activityFile.json)]]
            /\ UNCHANGED lastCall
       ELSE /\ callers' = [callers EXCEPT ![th] = IdleCaller]
            /\ lastCall' = Loaded("DeserializationError")
    /\ UNCHANGED <<now, pc, sleepLeft, config, activity, configFile, activityFile,
                   tick, sentOn, notifierResult, calls, maxStable>>
    /\ UNCHANGED <<activityLock, startVars, streakVars>>

\* load_from_files: activity_data.lock() returns and the parsed activity is
\* stored
LoadStoreActivity(th) ==
    /\ callers[th].pc = "locking_activity"
    /\ activityLock = "free"
    /\ activityLock' = th
    /\ activity' = callers[th].arg
    /\ callers' = [callers EXCEPT ![th].pc = "stored_activity"]
    /\ UNCHANGED <<now, pc, sleepLeft, config, configFile, activityFile,
                   tick, sentOn, notifierResult, calls, lastCall, maxStable>>
    /\ UNCHANGED <<configLock, startVars, streakVars>>

\* load_from_files: the activity guard is dropped and Ok(()) returned
LoadReturn(th) ==
    /\ callers[th].pc = "stored_activity"
    /\ activityLock' = "free"
    /\ callers' = [callers EXCEPT ![th] = IdleCaller]
    /\ lastCall' = Loaded("Ok")
    /\ UNCHANGED <<now, pc, sleepLeft, config, activity, configFile, activityFile,
                   tick, sentOn, notifierResult, calls, maxStable>>
    /\ UNCHANGED <<configLock, startVars, streakVars>>

\* The commands that change a record
Mutations == {c \in Commands : c.cmd # "load_from_files"}

\* One step of the thread th: it runs one of the commands cmds, one lock()
\* at a time
CallerStepOf(th, cmds) ==
    \/ \E c \in cmds : CallBegin(th, c)
    \/ UpdateLock(th)
    \/ \E written \in BOOLEAN : UpdateSave(th, written)
    \/ RecordLock(th)
    \/ \E written \in BOOLEAN : RecordSave(th, written)
    \/ LoadReadConfig(th)
    \/ LoadStoreConfig(th)
    \/ LoadReadActivity(th)
    \/ LoadStoreActivity(th)
    \/ LoadReturn(th)

CallerStep(th) == CallerStepOf(th, Mutations)

\* One step of the tick loop
TickLoopStep ==
    \/ TickWake
    \/ TickLock
    \/ TickEvaluate
    \/ \E shown \in BOOLEAN : Dispatch(shown)
    \/ EndTick

\* Hours pass only between commands
Quiet == callers = NoCallers

NextLocks ==
    \/ \E t \in LockInstants : Quiet /\ Advance(t)
    \/ TickLoopStep
    \/ \E th \in Callers : CallerStep(th)

SpecLocks == Init /\ [][NextLocks]_vars

\* Under a fair scheduler: the clock is observed at 12:00 and 13:00 of day
\* 0 and the commands are a switch-off, an activity and a load
FairInstants == {24, 26}

FairMutations ==
    {[cmd |-> "update_notification_config",
      arg |-> [DefaultConfig EXCEPT !.enabled = FALSE]],
     [cmd |-> "record_app_activity", arg |-> ""]}

FairCallerStep(th) == CallerStepOf(th, FairMutations)

NextLocksFair ==
    \/ \E t \in FairInstants : Quiet /\ Advance(t)
    \/ TickLoopStep
    \/ \E th \in Callers : FairCallerStep(th)

\* The scheduler runs every thread that can take a step
SpecLocksFair ==
    /\ Init
    /\ [][NextLocksFair]_vars
    /\ WF_vars(TickLoopStep)
    /\ \A th \in Callers : WF_vars(FairCallerStep(th))

Threads == Callers \cup {"tick"}

RecordCommands == {"record_app_activity", "record_habit_completion_backend"}

\* The thread is blocked in, or about to enter, config.lock()
WaitsForConfig(th) ==
    IF th = "tick"
    THEN TickWants = "config"
    ELSE /\ callers[th].pc = "locking"
         /\ callers[th].cmd \in {"update_notification_config", "load_from_files"}

\* The thread is blocked in, or about to enter, activity_data.lock()
WaitsForActivity(th) ==
    IF th = "tick"
    THEN TickWants = "activity"
    ELSE \/ callers[th].pc = "locking" /\ callers[th].cmd \in RecordCommands
         \/ callers[th].pc = "locking_activity"

\* C13: while the tick loop is invoking the Notifier it holds neither
\* guard, and it holds both guards only during the evaluation step.
C13_NoLockWhileNotifying ==
    /\ pc = "Notifying" => (configLock # "tick" /\ activityLock # "tick")
    /\ (configLock = "tick" /\ activityLock = "tick") => pc = "Evaluating"

\* A dispatch is in flight while one command holds the config guard and
\* another the activity guard
C13_Witness ==
    /\ pc = "Notifying"
    /\ configLock \in Callers
    /\ activityLock \in Callers

\* No two threads wait for each other, and no thread waits for a guard it
\* holds
NoWaitCycle ==
    /\ \A a, b \in Threads :
          ~(/\ configLock = a /\ WaitsForActivity(a)
            /\ activityLock = b /\ WaitsForConfig(b))
    /\ \A th \in Threads :
          /\ WaitsForConfig(th) => configLock # th
          /\ WaitsForActivity(th) => activityLock # th

\* No thread asks for the config guard while it holds the activity guard
NoConfigAfterActivity ==
    \A th \in Threads : WaitsForConfig(th) => activityLock # th

\* A step that leaves a thread with both guards finds it with the config
\* guard already
ConfigBeforeActivity ==
    \A th \in Threads :
        (configLock' = th /\ activityLock' = th) => configLock = th

\* C14: for any interleaving of the tick loop with the commands and
\* load_from_files no deadlock is reachable: a thread holding both guards
\* took config first, no thread waits for config while holding activity,
\* and under fair scheduling every thread that asks for a guard gets it.
C14_NoDeadlock ==
    /\ [](NoWaitCycle /\ NoConfigAfterActivity)
    /\ [][ConfigBeforeActivity]_vars
    /\ \A th \in Threads :
          /\ WaitsForConfig(th) ~> (configLock = th)
          /\ WaitsForActivity(th) ~> (activityLock = th)

\* The loop holds the config guard and waits for the activity guard, held
\* by a command, while another command waits for the config guard
C14_Witness ==
    /\ configLock = "tick"
    /\ WaitsForActivity("tick")
    /\ activityLock \in Callers
    /\ \E th \in Callers : WaitsForConfig(th)

\* C15: whenever a record_activity or record_habit_completion holds the
\* activity guard, an update_config can take the config guard without
\* waiting for that call: the config guard is free or its holder does not
\* wait for the activity guard, also when a tick is pending.
C15_PerRecord ==
    \A th \in Callers :
        (activityLock = th /\ callers[th].cmd \in RecordCommands) =>
            \A h \in Threads : configLock = h => ~WaitsForActivity(h)

\* The loop is in its body, between the return of thread::sleep and the
\* next thread::sleep
InTick == pc # "Idle"

\* C16: every tick that starts evaluating reaches Idle again, by a skip or
\* by way of the dispatch whatever its outcome, also after a failed save of
\* a command; the loop never ends, and a loop whose sleep is over starts
\* its next tick.
C16_TickReturns ==
    /\ [](pc \in {"Idle", "LockingFirst", "LockingSecond", "Evaluating",
                  "Skipped", "Notifying", "Notified"})
    /\ InTick ~> (pc = "Idle")
    /\ (pc = "Notified" /\ notifierResult = "Err") ~> (pc = "Idle")
    /\ (pc = "Idle" /\ sleepLeft = 0) ~> (pc = "Evaluating")

\* After a command whose save failed and a tick whose dispatch was made,
\* the second tick of the loop is evaluating
C16_Witness ==
    /\ pc = "Evaluating"
    /\ now = 26
    /\ sentOn[DateNaive(now)] = 1
    /\ lastCall.saved = "Err"

----------------------------------------------------------------------------
\* start_background_notifications invoked again in the running process

\* The command builds a service with the defaults, loads the documents into
\* it and starts its tick loop; app_handle.manage finds a service of this
\* type in the app state, keeps that one and drops the new handle, whose
\* records live on in its loop's thread.
StartAgain(dir_resolved) ==
    /\ calls < MaxCalls
    /\ calls' = calls + 1
    /\ LET r == LoadFromFiles(configFile, activityFile, DefaultConfig,
                              DefaultActivity(now), dir_resolved) IN
        /\ orphans' = Append(orphans, [config |-> r.config,
                                       activity |-> r.activity,
                                       wakeAt |-> now + SleepUnits])
        /\ lastCall' = StartedAfter(r.result)
    /\ UNCHANGED <<now, pc, sleepLeft, config, activity, configFile, activityFile,
                   tick, sentOn, notifierResult, maxStable>>
    /\ UNCHANGED <<lockVars, streakVars>>

\* One tick of the loop of the i-th such service, on its own records: the
\* locked block and, on a positive decision, the dispatch
OrphanTick(i) ==
    /\ now >= orphans[i].wakeAt
    /\ LET r == Evaluate(orphans[i].config, orphans[i].activity, now) IN
        /\ orphans' = [orphans EXCEPT ![i].activity = r.activity,
                                      ![i].wakeAt = now + SleepUnits]
        /\ sentOn' = IF r.notify
                     THEN [sentOn EXCEPT ![DateNaive(now)] = @ + 1]
                     ELSE sentOn
    /\ UNCHANGED <<now, pc, sleepLeft, config, activity, configFile, activityFile,
                   tick, notifierResult, calls, lastCall, maxStable>>
    /\ UNCHANGED <<lockVars, streakVars>>

\* The clock is observed at 12:00 and 13:00 of day 0 and at 00:00 of day 1
StartInstants == {24, 26, 48}

NextStart ==
    \/ \E t \in StartInstants : Advance(t)
    \/ Wake
    \/ TickEvaluate
    \/ \E shown \in BOOLEAN : Dispatch(shown)
    \/ EndTick
    \/ \E c \in ConfigChoices, written \in BOOLEAN : UpdateConfig(c, written)
    \/ \E written \in BOOLEAN : RecordActivity(written)
    \/ \E h \in HabitIds, written \in BOOLEAN : RecordHabitCompletion(h, written)
    \/ \E dir_resolved \in BOOLEAN : StartAgain(dir_resolved)
    \/ \E i \in DOMAIN orphans : OrphanTick(i)

SpecStart == Init /\ [][NextStart]_vars

\* C18: whatever start_background_notifications invocations came before,
\* every running tick loop evaluates the records the commands change: the
\* config an update_notification_config stored is the config of every
\* loop, and the activity a record_app_activity or a
\* record_habit_completion_backend changed is the activity of every loop.
C18_LoopsSeeCommands ==
    [][/\ UpdateConfigStep =>
              \A i \in DOMAIN orphans' : orphans'[i].config = config'
       /\ (RecordActivityStep \/ RecordHabitCompletionStep) =>
              \A i \in DOMAIN orphans' : orphans'[i].activity = activity'
      ]_vars

----------------------------------------------------------------------------
\* The streak-protection loop of lib.rs (start_enhanced_background_service)

\* chrono on the loop's clock, in minutes since local midnight of day 0
StreakHourOf(m) == (m \div MinutesPerHour) % HoursPerDay
StreakMinuteOf(m) == m % MinutesPerHour
StreakDateOf(m) == m \div MinutesPerDay

\* (variant: the whole hour from 18:00 counts)
ShouldSendStreakProtectionReminder_wholeHour(m) ==
    IF StreakHourOf(m) < StreakFirstHour \/ StreakHourOf(m) > StreakLastHour
    THEN FALSE
    ELSE StreakHourOf(m) = StreakHour

\* should_send_streak_protection_reminder at the instant m
ShouldSendStreakProtectionReminder(m) ==
    IF StreakHourOf(m) < StreakFirstHour \/ StreakHourOf(m) > StreakLastHour
    THEN FALSE
    ELSE StreakHourOf(m) = StreakHour /\ StreakMinuteOf(m) < StreakMinutes

\* One turn of the loop: the sleep is over at the instant m, the check is
\* made and on a positive check the reminder is dispatched (its result is
\* dropped); the loop sleeps again
StreakCheck(m) ==
    /\ m >= streakWake
    /\ m <= streakWake + StreakJitter
    /\ m <= StreakEnd
    /\ streakNow' = m
    /\ streakSent' = IF ShouldSendStreakProtectionReminder(m)
                     THEN [streakSent EXCEPT ![StreakDateOf(m)] = @ + 1]
                     ELSE streakSent
    /\ streakWake' = m + StreakSleep
    /\ UNCHANGED <<now, pc, sleepLeft, config, activity, configFile, activityFile,
                   tick, sentOn, notifierResult, calls, lastCall, maxStable>>
    /\ UNCHANGED <<lockVars, startVars>>

\* setup spawns the loop at any minute of day 0; the service is the one of
\* a fresh installation
InitStreak ==
    /\ now = 0
    /\ pc = "Idle"
    /\ sleepLeft = SleepUnits
    /\ config = DefaultConfig
    /\ activity = DefaultActivity(0)
    /\ configFile = Absent
    /\ activityFile = Absent
    /\ tick = NoTick
    /\ sentOn = NoneSent
    /\ notifierResult = "none"
    /\ calls = 0
    /\ lastCall = Started
    /\ maxStable = TRUE
    /\ LocksFree
    /\ orphans = <<>>
    /\ streakNow \in 0..(MinutesPerDay - 1)
    /\ streakWake = streakNow + StreakSleep
    /\ streakSent = NoStreakSent

\* The loop runs while commands change the config and the activity
NextStreak ==
    \/ \E late \in 0..StreakJitter : StreakCheck(streakWake + late)
    \/ \E c \in ConfigChoices : UpdateConfig(c, TRUE)
    \/ RecordActivity(TRUE)

SpecStreak == InitStreak /\ [][NextStreak]_vars

\* a turn of the loop is made
StreakStep == streakWake' # streakWake

\* the turn dispatches a reminder
StreakDispatched ==
    \E d \in StreakDates : streakSent'[d] = streakSent[d] + 1

----------------------------------------------------------------------------
\* The sessions and the last activity

\* the list is in non-decreasing order, ends with last_activity and holds
\* nothing later than last_activity
SessionsEndAtLastActivity(act) ==
    LET sessions == act.daily_sessions IN
    /\ sessions[Len(sessions)] = act.last_activity
    /\ \A i \in 1..Len(sessions) : sessions[i] <= act.last_activity
    /\ \A i, j \in 1..Len(sessions) : i <= j => sessions[i] <= sessions[j]

\* the dispatch of a tick is made
DispatchStep == pc = "Notifying" /\ pc' = "Notified"

\* C21: with a clock that does not go backwards, after every
\* record_activity, whatever ticks and commands came before,
\* daily_sessions is non-empty, ends with last_activity, holds no
\* element later than last_activity and is in non-decreasing order; the
\* same holds of every non-empty daily_sessions in any state; and a tick
\* (its locked block, its dispatch) and a record_habit_completion change
\* neither last_activity nor daily_sessions.
C21_Sessions ==
    /\ [][/\ RecordActivityStep =>
                 /\ activity'.daily_sessions # <<>>
                 /\ activity'.last_activity = now
                 /\ SessionsEndAtLastActivity(activity')
          /\ (TickStep \/ DispatchStep \/ RecordHabitCompletionStep) =>
                 /\ activity'.last_activity = activity.last_activity
                 /\ activity'.daily_sessions = activity.daily_sessions
         ]_vars
    /\ [](activity.daily_sessions # <<>> => SessionsEndAtLastActivity(activity))

\* A second record_activity, after a tick that notified: two sessions in
\* order, the later one the last activity
C21_Witness ==
    /\ lastCall.cmd = "record_app_activity"
    /\ Len(activity.daily_sessions) = 2
    /\ activity.daily_sessions[1] < activity.daily_sessions[2]
    /\ activity.daily_sessions[2] = activity.last_activity
    /\ activity.last_activity = now
    /\ activity.notifications_sent_today > 0

====
